---- MODULE Spec2Model ----
(***************************************************************************)
(* Model of script/snb_sarh_to_json.py: fetch the SNB interest-rate feed,  *)
(* locate the item of rate SARH, extract and normalise its date and value, *)
(* write the JSON record.                                                  *)
(*                                                                         *)
(* A Python string is a sequence of one-character strings; inside a tag a  *)
(* run of name characters is written as one element ("cb", "item").  An    *)
(* optional value (str | None) is a record [some, val].                    *)
(***************************************************************************)
EXTENDS Integers, Sequences, FiniteSets, TLC

VARIABLES
  tag, lname,        \* localname: its argument and its result
  raw, parsed,       \* parse_date_to_yyyy_mm_dd: its argument and its result
  feed,              \* the document served at XML_URL
  file,              \* the content of OUT_PATH
  clock,             \* the UTC time
  runs,              \* the invocations of the script so far
  pc,                \* main(): the stage to run next
  root, item, dc_date, date_iso, value_txt, value_num,   \* main(): its locals
  exit_code,         \* what main() returned: <<>> while it runs
  err,               \* the message this run printed to stderr
  stdout             \* the lines the runs printed to stdout

fnVars == <<tag, lname, raw, parsed>>
envVars == <<feed, file, clock, runs, stdout>>
mainVars == <<feed, file, clock, runs, pc, root, item, dc_date, date_iso,
              value_txt, value_num, exit_code, err, stdout>>
locals == <<root, item, dc_date, date_iso, value_txt, value_num>>
vars == <<tag, lname, raw, parsed, feed, file, clock, runs, pc,
          root, item, dc_date, date_iso, value_txt, value_num, exit_code, err, stdout>>

(***************************************************************************)
(* Bounds of the input sets.                                               *)
(***************************************************************************)
MaxTagLen == 4
MaxDateLen == 10
MaxItems == 2
MaxFields == 2
MaxObs == 2
MaxRuns == 2

(***************************************************************************)
(* Python values.                                                          *)
(***************************************************************************)
None == [some |-> FALSE, val |-> <<>>]
Some(v) == [some |-> TRUE, val |-> v]
\* `x or ""` for x : str | None
OrEmpty(x) == IF x.some THEN x.val ELSE <<>>
\* the result of a call that has not returned / has raised
Unset == [ret |-> "unset", val |-> <<>>, err |-> ""]
Returned(v) == [ret |-> "value", val |-> v, err |-> ""]
Raised(e) == [ret |-> "raise", val |-> <<>>, err |-> e]

Whitespace == {" "}

RECURSIVE LStrip(_)
LStrip(s) ==
  IF s # <<>> /\ Head(s) \in Whitespace THEN LStrip(Tail(s)) ELSE s

RECURSIVE RStrip(_)
RStrip(s) ==
  IF s # <<>> /\ s[Len(s)] \in Whitespace THEN RStrip(SubSeq(s, 1, Len(s) - 1)) ELSE s

\* str.strip()
Strip(s) == RStrip(LStrip(s))

\* index of the first occurrence of c in s, 0 when there is none (str.find + 1)
RECURSIVE FindFrom(_, _, _)
FindFrom(s, c, i) ==
  IF i > Len(s) THEN 0
  ELSE IF s[i] = c THEN i
  ELSE FindFrom(s, c, i + 1)

Find(s, c) == FindFrom(s, c, 1)

\* s.split(c, 1)[-1]: what follows the first c, or s itself when c is not in s
SplitOnceLast(s, c) ==
  IF Find(s, c) = 0 THEN s ELSE SubSeq(s, Find(s, c) + 1, Len(s))

\* localname(tag), tag : str | None
localname(t) ==
  IF t.some /\ t.val # <<>> /\ Find(t.val, "}") # 0
    THEN SplitOnceLast(t.val, "}")
    ELSE OrEmpty(t)

(***************************************************************************)
(* parse_date_to_yyyy_mm_dd                                                *)
(***************************************************************************)
Digits == {"0", "1", "2", "3", "4", "5", "6", "7", "8", "9"}

DigitVal(c) ==
  CASE c = "0" -> 0 [] c = "1" -> 1 [] c = "2" -> 2 [] c = "3" -> 3
    [] c = "4" -> 4 [] c = "5" -> 5 [] c = "6" -> 6 [] c = "7" -> 7
    [] c = "8" -> 8 [] c = "9" -> 9

AllDigits(s) == \A i \in 1..Len(s) : s[i] \in Digits

RECURSIVE ToInt(_)
ToInt(s) == IF s = <<>> THEN 0 ELSE 10 * ToInt(SubSeq(s, 1, Len(s) - 1)) + DigitVal(s[Len(s)])

\* s.replace(old, new), old one character, new a string
RECURSIVE Replace(_, _, _)
Replace(s, old, new) ==
  IF s = <<>> THEN <<>>
  ELSE (IF Head(s) = old THEN new ELSE <<Head(s)>>) \o Replace(Tail(s), old, new)

UtcOffset == <<"+", "0", "0", ":", "0", "0">>

IsLeap(y) == (y % 4 = 0 /\ y % 100 # 0) \/ y % 400 = 0

DaysInMonth(y, m) ==
  IF m = 2 THEN (IF IsLeap(y) THEN 29 ELSE 28)
  ELSE IF m \in {4, 6, 9, 11} THEN 30 ELSE 31

ValidDate(y, m, d) == y >= 1 /\ m \in 1..12 /\ d >= 1 /\ d <= DaysInMonth(y, m)

\* an hour field HH of the time part
ValidHour(s) == Len(s) = 2 /\ AllDigits(s) /\ ToInt(s) <= 23

\* datetime.fromisoformat accepts what follows the date: nothing, a UTC
\* offset, or a separator character and an hour, with or without an offset
ValidIsoRest(r) ==
  \/ r = <<>>
  \/ r = UtcOffset
  \/ Len(r) = 3 /\ ValidHour(SubSeq(r, 2, 3))
  \/ Len(r) = 9 /\ ValidHour(SubSeq(r, 2, 3)) /\ SubSeq(r, 4, 9) = UtcOffset

\* datetime.fromisoformat(s2) succeeds: s2 is a basic-format date YYYYMMDD
\* and a valid rest (the extended format YYYY-MM-DD... never gets here with
\* ten or more characters: the fast path has returned)
IsoParses(s2) ==
  /\ Len(s2) >= 8
  /\ AllDigits(SubSeq(s2, 1, 8))
  /\ ValidDate(ToInt(SubSeq(s2, 1, 4)), ToInt(SubSeq(s2, 5, 6)), ToInt(SubSeq(s2, 7, 8)))
  /\ ValidIsoRest(SubSeq(s2, 9, Len(s2)))

\* d.date().isoformat() of the parsed basic-format date
IsoDate(s2) ==
  SubSeq(s2, 1, 4) \o <<"-">> \o SubSeq(s2, 5, 6) \o <<"-">> \o SubSeq(s2, 7, 8)

\* the fallback of parse_date_to_yyyy_mm_dd on the stripped text s
IsoFallback(s) ==
  IF IsoParses(Replace(s, "Z", UtcOffset))
    THEN Returned(IsoDate(Replace(s, "Z", UtcOffset)))
    ELSE Raised("ValueError: Invalid isoformat string")

\* the fast path: ten characters or more with '-' at s[4] and s[7] (0-based)
LooksIso(s) == Len(s) >= 10 /\ s[5] = "-" /\ s[8] = "-"

parse_date_to_yyyy_mm_dd(x) ==
  IF Strip(OrEmpty(x)) = <<>> THEN Raised("ValueError: Empty dc:date")
  ELSE IF LooksIso(Strip(OrEmpty(x))) THEN Returned(SubSeq(Strip(OrEmpty(x)), 1, 10))
  ELSE IsoFallback(Strip(OrEmpty(x)))

(***************************************************************************)
(* float(value_txt.replace(",", "."))                                      *)
(*                                                                         *)
(* A float is the decimal fraction [num, den] in lowest decimal terms      *)
(* (den a power of ten), so that 1.50 and 1.5 are the same number.         *)
(***************************************************************************)
RECURSIVE Pow10(_)
Pow10(n) == IF n = 0 THEN 1 ELSE 10 * Pow10(n - 1)

RECURSIVE Reduce(_, _)
Reduce(num, den) ==
  IF den > 1 /\ num % 10 = 0 THEN Reduce(num \div 10, den \div 10)
  ELSE [num |-> num, den |-> den]

Count(s, c) == Cardinality({i \in 1..Len(s) : s[i] = c})

Without(s, c) == Replace(s, c, <<>>)

\* float(s) for s made of digits and '.', anything else is no number
float(s) ==
  IF /\ \A i \in 1..Len(s) : s[i] \in Digits \cup {"."}
     /\ Count(s, ".") <= 1
     /\ Without(s, ".") # <<>>
    THEN Returned(Reduce(ToInt(Without(s, ".")),
                         Pow10(IF Find(s, ".") = 0 THEN 0 ELSE Len(s) - Find(s, "."))))
    ELSE Raised("ValueError: could not convert string to float")

(***************************************************************************)
(* The element tree.  A tree is the sequence of its elements in document   *)
(* (depth-first pre-order) order, each with its depth; Element.iter() of   *)
(* the element at index i is the run i..SubtreeEnd(t, i).  Index 0 stands  *)
(* for "no element" (None).                                                *)
(***************************************************************************)
RECURSIVE SubtreeEndFrom(_, _, _)
SubtreeEndFrom(t, i, j) ==
  IF j + 1 <= Len(t) /\ t[j + 1].depth > t[i].depth
    THEN SubtreeEndFrom(t, i, j + 1)
    ELSE j

SubtreeEnd(t, i) == SubtreeEndFrom(t, i, i)

LocalTag(el) == localname(Some(el.tag))
Text(el) == Strip(OrEmpty(el.text))

\* a comparison that ignores case
Upper(c) ==
  CASE c = "s" -> "S" [] c = "a" -> "A" [] c = "r" -> "R" [] c = "h" -> "H"
    [] OTHER -> c
UpperStr(x) == [i \in 1..Len(x) |-> Upper(x[i])]
HasRateNameAnyCase(t, el, rate_name) ==
  \E rn \in el..SubtreeEnd(t, el) :
    LocalTag(t[rn]) = <<"rateName">> /\ UpperStr(Text(t[rn])) = UpperStr(rate_name)

\* lines 65-67: some element of el.iter() is a rateName of text rate_name
HasRateName(t, el, rate_name) ==
  \E rn \in el..SubtreeEnd(t, el) :
    LocalTag(t[rn]) = <<"rateName">> /\ Text(t[rn]) = rate_name

\* lines 60-69, the loop from element i on
RECURSIVE ScanItems(_, _, _, _)
ScanItems(t, i, last, rate_name) ==
  IF i > last THEN 0
  ELSE IF LocalTag(t[i]) = <<"item">> /\ HasRateName(t, i, rate_name) THEN i
  ELSE ScanItems(t, i + 1, last, rate_name)

\* the last matching item instead of the first
RECURSIVE ScanItemsBack(_, _, _)
ScanItemsBack(t, i, rate_name) ==
  IF i < 1 THEN 0
  ELSE IF LocalTag(t[i]) = <<"item">> /\ HasRateName(t, i, rate_name) THEN i
  ELSE ScanItemsBack(t, i - 1, rate_name)
find_last_item_by_rate_name(t, rate_name) ==
  ScanItemsBack(t, SubtreeEnd(t, 1), rate_name)

find_item_by_rate_name(t, rate_name) ==
  ScanItems(t, 1, SubtreeEnd(t, 1), rate_name)

\* lines 50-55, the loop from element i on
RECURSIVE ScanText(_, _, _, _)
ScanText(t, i, last, wanted_local) ==
  IF i > last THEN None
  ELSE IF LocalTag(t[i]) = wanted_local /\ Text(t[i]) # <<>> THEN Some(Text(t[i]))
  ELSE ScanText(t, i + 1, last, wanted_local)

\* the text of the first element of that tag, empty or not
RECURSIVE ScanTag(_, _, _, _)
ScanTag(t, i, last, wanted_local) ==
  IF i > last THEN None
  ELSE IF LocalTag(t[i]) = wanted_local
    THEN (IF Text(t[i]) # <<>> THEN Some(Text(t[i])) ELSE None)
  ELSE ScanTag(t, i + 1, last, wanted_local)
find_first_desc_or_none(t, parent, wanted_local) ==
  ScanTag(t, parent, SubtreeEnd(t, parent), wanted_local)

find_first_desc_text(t, parent, wanted_local) ==
  ScanText(t, parent, SubtreeEnd(t, parent), wanted_local)

\* lines 80-83, the inner loop: the first value element of obs.iter(), or 0
RECURSIVE ScanValue(_, _, _)
ScanValue(t, i, last) ==
  IF i > last THEN 0
  ELSE IF LocalTag(t[i]) = <<"value">> THEN i
  ELSE ScanValue(t, i + 1, last)

\* lines 77-84, the outer loop from element i on
RECURSIVE ScanObservations(_, _, _)
ScanObservations(t, i, last) ==
  IF i > last THEN None
  ELSE IF LocalTag(t[i]) = <<"observation">> /\ ScanValue(t, i, SubtreeEnd(t, i)) # 0
    THEN (IF Text(t[ScanValue(t, i, SubtreeEnd(t, i))]) # <<>>
            THEN Some(Text(t[ScanValue(t, i, SubtreeEnd(t, i))]))
            ELSE None)
  ELSE ScanObservations(t, i + 1, last)

\* the first value text anywhere in the item
find_any_value_text(t, item_el) ==
  ScanText(t, item_el, SubtreeEnd(t, item_el), <<"value">>)

find_observation_value(t, item_el) ==
  ScanObservations(t, item_el, SubtreeEnd(t, item_el))

(***************************************************************************)
(* Input sets of the two pure functions.                                   *)
(***************************************************************************)
SeqsUpTo(S, n) == UNION {[1..k -> S] : k \in 0..n}

TagChars == {"{", "}", "u", "n"}
TagInputs == {None} \cup {Some(s) : s \in SeqsUpTo(TagChars, MaxTagLen)}

\* date texts: a digit or a letter at each place, '-' possible at the two
\* places the fast path looks at, optionally a final Z, optionally padded
DateCharsAt(i) == IF i \in {5, 8} THEN {"1", "-"} ELSE {"1", "x"}
DateCores ==
  UNION {{s \in [1..k -> {"1", "-", "x"}] : \A i \in 1..k : s[i] \in DateCharsAt(i)} :
           k \in 0..MaxDateLen}
DateTexts ==
  {l \o c \o z \o r : l \in {<<>>, <<" ">>}, c \in DateCores,
                      z \in {<<>>, <<"Z">>}, r \in {<<>>, <<" ">>}}
DateInputs == {None} \cup {Some(s) : s \in DateTexts}

(***************************************************************************)
(* The feed.  Elements are [tag, text, depth]; tags are namespace-         *)
(* qualified as ElementTree gives them ({uri}name).                        *)
(***************************************************************************)
XML_URL == "https://www.snb.ch/public/en/rss/interestRates"
TARGET_RATE_NAME == <<"S", "A", "R", "H">>

El(t, x, d) == [tag |-> t, text |-> x, depth |-> d]

RootTag == <<"{", "rdf", "}", "RDF">>
ItemTag == <<"{", "rss", "}", "item">>
DateTag == <<"{", "dc", "}", "date">>
ObservationTag == <<"{", "cb", "}", "observation">>
RateNameTag == <<"{", "cb", "}", "rateName">>
ValueTag == <<"{", "cb", "}", "value">>

RECURSIVE Concat(_)
Concat(ss) == IF ss = <<>> THEN <<>> ELSE Head(ss) \o Concat(Tail(ss))

\* an observation with or without a rateName child and a value child
ObsEls(o, d) ==
  <<El(ObservationTag, None, d)>>
    \o (IF o.rate.some THEN <<El(RateNameTag, o.rate, d + 1)>> ELSE <<>>)
    \o (IF o.value.some THEN <<El(ValueTag, o.value, d + 1)>> ELSE <<>>)

\* an item: its own fields, then its observations
ItemEls(fields, obs) ==
  <<El(ItemTag, None, 1)>>
    \o [i \in 1..Len(fields) |-> El(fields[i].tag, fields[i].text, 2)]
    \o Concat([i \in 1..Len(obs) |-> ObsEls(obs[i], 2)])

Sarh == <<"S", "A", "R", "H">>
Obs(r, v) == [rate |-> r, value |-> v]
ObsKinds ==
  { Obs(Some(Sarh), Some(<<"1", ",", "5">>)),
    Obs(Some(Sarh), None),
    Obs(Some(<<"s", "a", "r", "h">>), Some(<<" ">>)),
    Obs(Some(<<" ", "S", "A", "R", "H", " ">>), Some(<<"1", ".", "5", "0">>)),
    Obs(Some(<<"S", "A", "R", "O", "N">>), Some(<<"4">>)) }

Field(t, x) == [tag |-> t, text |-> x]
IsoStamp ==
  <<"2", "0", "2", "4", "-", "0", "3", "-", "0", "1", "T",
    "0", "0", ":", "0", "0", ":", "0", "0", "Z">>
FieldKinds ==
  { Field(DateTag, Some(IsoStamp)),
    Field(DateTag, Some(<<" ">>)),
    Field(DateTag, Some(<<"M", "a", "r", "1">>)) }

ObsSeqs == SeqsUpTo(ObsKinds, MaxObs)
FieldSeqs == SeqsUpTo(FieldKinds, MaxFields)
ObsFew ==
  { <<Obs(Some(Sarh), Some(<<"1", ",", "5">>))>>, <<Obs(Some(Sarh), None)>> }
FieldsFew ==
  { <<Field(DateTag, Some(IsoStamp))>>, <<Field(DateTag, Some(<<"M", "a", "r", "1">>))>> }

\* the item under study: any fields with few observations, or few fields
\* with any observations
RichItems ==
  {ItemEls(f, o) : f \in FieldSeqs, o \in ObsFew}
    \cup {ItemEls(f, o) : f \in FieldsFew, o \in ObsSeqs}

\* its neighbours: an item with a padded basic-format date and a value of
\* its own, whose SARH observation sits in a nested item, and an item of
\* another rate whose value is no number
NestedItem ==
  <<El(ItemTag, None, 1),
    El(DateTag, Some(<<" ", "2", "0", "2", "4", "0", "3", "0", "2", " ">>), 2),
    El(ValueTag, Some(<<"9">>), 2),
    El(ItemTag, None, 2)>>
    \o ObsEls(Obs(Some(Sarh), Some(<<"3">>)), 3)
OtherItem ==
  ItemEls(<<Field(DateTag, Some(IsoStamp))>>,
          <<Obs(Some(<<"S", "A", "R", "O", "N">>), Some(<<"x">>))>>)
\* an item of rate SARH whose value is no number
NoNumberItem ==
  ItemEls(<<Field(DateTag, Some(IsoStamp))>>, <<Obs(Some(Sarh), Some(<<"x">>))>>)

TopItems(f) == {i \in 1..Len(f) : LocalTag(f[i]) = <<"item">> /\ f[i].depth = 1}

\* the empty document (not well-formed), the feed without items, and the
\* feeds of at most MaxItems items: neighbours, the item under study, and
\* possibly one more item of rate SARH
Feeds ==
  {<<>>, <<El(RootTag, None, 0)>>, <<El(RootTag, None, 0)>> \o NoNumberItem}
    \cup {f \in {<<El(RootTag, None, 0)>> \o Concat(b) \o r \o a :
                    r \in RichItems,
                    b \in {<<NestedItem>>} \cup SeqsUpTo({OtherItem}, MaxItems - 1),
                    a \in {<<>>, NestedItem}} :
             Cardinality(TopItems(f)) <= MaxItems}

(***************************************************************************)
(* The output file.                                                        *)
(***************************************************************************)
NoFloat == [num |-> 0, den |-> 1]
Absent ==
  [kind |-> "absent", generated_at_utc |-> 0, source |-> "", rateName |-> <<>>,
   date |-> <<>>, value |-> NoFloat]
\* opened for writing (truncated) and not written in full
Partial == [Absent EXCEPT !.kind = "partial"]
Json(ts, src, rn, d, v) ==
  [kind |-> "json", generated_at_utc |-> ts, source |-> src, rateName |-> rn,
   date |-> d, value |-> v]
\* the record an earlier run left, of an earlier state of the feed
OldRecord ==
  Json(0, XML_URL, TARGET_RATE_NAME,
       <<"2", "0", "2", "3", "-", "1", "2", "-", "3", "1">>, [num |-> 7, den |-> 1])

(***************************************************************************)
(* main()                                                                  *)
(***************************************************************************)
NoLocals ==
  /\ root = <<>>
  /\ item = 0
  /\ dc_date = None
  /\ date_iso = Unset
  /\ value_txt = None
  /\ value_num = Unset

\* the pipeline is not there (specifications of the pure functions)
MainIdle ==
  /\ feed = <<>>
  /\ file = Absent
  /\ clock = 0
  /\ runs = 0
  /\ pc = "Done"
  /\ NoLocals
  /\ exit_code = <<>>
  /\ err = ""
  /\ stdout = <<>>

Init ==
  /\ tag = None
  /\ lname = Unset
  /\ raw = None
  /\ parsed = Unset
  /\ feed \in Feeds
  /\ file \in {Absent, OldRecord}
  /\ clock = 1
  /\ runs = 1
  /\ pc = "Fetch"
  /\ NoLocals
  /\ exit_code = <<>>
  /\ err = ""
  /\ stdout = <<>>

\* the failure is printed and the run starts over
FailAndRetry(e) ==
  /\ pc' = "Fetch"
  /\ exit_code' = <<>>
  /\ err' = e

\* lines 123-125: the exception is printed and main returns 1
Fail(e) ==
  /\ pc' = "Done"
  /\ exit_code' = <<1>>
  /\ err' = e

Goto(stage) ==
  /\ pc' = stage
  /\ UNCHANGED <<exit_code, err>>

\* lines 89-90: fetch_xml and ET.fromstring
Fetch ==
  /\ pc = "Fetch"
  /\ \E net \in {"ok", "URLError"} :
       IF net # "ok" THEN Fail("URLError") /\ UNCHANGED root
       ELSE IF feed = <<>> THEN Fail("ParseError: no element found") /\ UNCHANGED root
       ELSE root' = feed /\ Goto("Locate")
  /\ UNCHANGED <<fnVars, envVars, item, dc_date, date_iso, value_txt, value_num>>

\* lines 92-94
Locate ==
  /\ pc = "Locate"
  /\ item' = find_item_by_rate_name(root, TARGET_RATE_NAME)
  /\ IF item' = 0
       THEN Fail("Could not find <item> containing rateName=SARH")
       ELSE Goto("ExtractDate")
  /\ UNCHANGED <<fnVars, envVars, root, dc_date, date_iso, value_txt, value_num>>

\* lines 97-99
ExtractDate ==
  /\ pc = "ExtractDate"
  /\ dc_date' = find_first_desc_text(root, item, <<"date">>)
  /\ IF ~dc_date'.some
       THEN Fail("dc:date not found in matched item")
       ELSE Goto("NormalizeDate")
  /\ UNCHANGED <<fnVars, envVars, root, item, date_iso, value_txt, value_num>>

\* line 100
NormalizeDate ==
  /\ pc = "NormalizeDate"
  /\ IF parse_date_to_yyyy_mm_dd(dc_date).ret = "raise"
       THEN Fail(parse_date_to_yyyy_mm_dd(dc_date).err) /\ UNCHANGED date_iso
       ELSE date_iso' = parse_date_to_yyyy_mm_dd(dc_date) /\ Goto("ExtractValue")
  /\ UNCHANGED <<fnVars, envVars, root, item, dc_date, value_txt, value_num>>

\* lines 102-104
ExtractValue ==
  /\ pc = "ExtractValue"
  /\ value_txt' = find_observation_value(root, item)
  /\ IF ~value_txt'.some
       THEN Fail("cb:observation/cb:value not found in matched item")
       ELSE Goto("NormalizeValue")
  /\ UNCHANGED <<fnVars, envVars, root, item, dc_date, date_iso, value_num>>

\* line 106
value_of(txt) == float(Replace(txt, ",", <<".">>))

NormalizeValue ==
  /\ pc = "NormalizeValue"
  /\ IF value_of(value_txt.val).ret = "raise"
       THEN Fail(value_of(value_txt.val).err) /\ UNCHANGED value_num
       ELSE value_num' = value_of(value_txt.val) /\ Goto("Write")
  /\ UNCHANGED <<fnVars, envVars, root, item, dc_date, date_iso, value_txt>>

\* the file opened for appending: the new record after the old content
payload_appended ==
  [Json(clock, XML_URL, TARGET_RATE_NAME, date_iso.val, value_num.val)
     EXCEPT !.kind = IF file.kind = "absent" THEN "json" ELSE "appended"]

\* lines 108-114
payload == Json(clock, XML_URL, TARGET_RATE_NAME, date_iso.val, value_num.val)

\* lines 116-121: makedirs or open may raise and leave the file alone; open
\* for writing empties the file, and a failing write leaves it incomplete
Write ==
  /\ pc = "Write"
  /\ \E fs \in {"ok", "OSError on open", "OSError on write"} :
       CASE fs = "ok" ->
              /\ file' = payload
              /\ stdout' = Append(stdout, [date |-> payload.date, value |-> payload.value])
              /\ pc' = "Done"
              /\ exit_code' = <<0>>
              /\ UNCHANGED err
         [] fs = "OSError on open" -> Fail("OSError") /\ UNCHANGED <<file, stdout>>
         [] fs = "OSError on write" -> Fail("OSError") /\ file' = Partial /\ UNCHANGED stdout
  /\ UNCHANGED <<fnVars, feed, clock, runs, locals>>

\* the scheduler invokes the script again, later
Restart ==
  /\ pc = "Done"
  /\ runs < MaxRuns
  /\ runs' = runs + 1
  /\ clock' = clock + 1
  /\ pc' = "Fetch"
  /\ root' = <<>>
  /\ item' = 0
  /\ dc_date' = None
  /\ date_iso' = Unset
  /\ value_txt' = None
  /\ value_num' = Unset
  /\ exit_code' = <<>>
  /\ err' = ""
  /\ UNCHANGED <<fnVars, feed, file, stdout>>

Next ==
  \/ Fetch
  \/ Locate
  \/ ExtractDate
  \/ NormalizeDate
  \/ ExtractValue
  \/ NormalizeValue
  \/ Write
  \/ Restart

Spec == Init /\ [][Next]_vars

(***************************************************************************)
(* Specification of localname alone: a tag is given, localname is called.  *)
(***************************************************************************)
InitTag ==
  /\ tag \in TagInputs
  /\ lname = Unset
  /\ raw = None
  /\ parsed = Unset
  /\ MainIdle

CallLocalname ==
  /\ lname.ret = "unset"
  /\ lname' = Returned(localname(tag))
  /\ UNCHANGED <<tag, raw, parsed, mainVars>>

NextTag == CallLocalname

SpecTag == InitTag /\ [][NextTag]_vars

(***************************************************************************)
(* Specification of parse_date_to_yyyy_mm_dd alone.                        *)
(***************************************************************************)
InitDate ==
  /\ raw \in DateInputs
  /\ parsed = Unset
  /\ tag = None
  /\ lname = Unset
  /\ MainIdle

CallParseDate ==
  /\ parsed.ret = "unset"
  /\ parsed' = parse_date_to_yyyy_mm_dd(raw)
  /\ UNCHANGED <<raw, tag, lname, mainVars>>

NextDate == CallParseDate

SpecDate == InitDate /\ [][NextDate]_vars

(***************************************************************************)
(* Properties.                                                             *)
(***************************************************************************)
Min(S) == CHOOSE x \in S : \A y \in S : x <= y
Max(S) == CHOOSE x \in S : \A y \in S : x >= y

\* what follows the last c of s
AfterLast(s, c) == SubSeq(s, Max({i \in 1..Len(s) : s[i] = c}) + 1, Len(s))

\* C4: localname returns what follows the last '}' of a tag that holds one
\* or more '}', the tag itself when it holds none, and the empty string for
\* the empty string and for None.
C4_LocalnameAfterLastBrace ==
  lname.ret = "value" =>
    lname.val = (IF ~tag.some THEN <<>>
                 ELSE IF \E i \in 1..Len(tag.val) : tag.val[i] = "}"
                   THEN AfterLast(tag.val, "}")
                   ELSE tag.val)

\* the form YYYY-MM-DD
IsYyyyMmDd(s) ==
  /\ Len(s) = 10
  /\ s[5] = "-"
  /\ s[8] = "-"
  /\ \A i \in {1, 2, 3, 4, 6, 7, 9, 10} : s[i] \in Digits

\* C5: whenever parse_date_to_yyyy_mm_dd returns, its result has the form
\* YYYY-MM-DD (digits around the two '-'); a text that does not start in
\* that form yields no result.
C5_ResultIsYyyyMmDd ==
  parsed.ret = "value" => IsYyyyMmDd(parsed.val)

(***************************************************************************)
(* Properties of main().  The elements of a subtree, the target items and  *)
(* the extractable fields are stated here on the tree itself, not by the   *)
(* loops of the code.                                                      *)
(***************************************************************************)
\* element i and its descendants: the elements from i up to the next
\* element that is not deeper than i
Outside(t, i) == {j \in (i + 1)..Len(t) : t[j].depth <= t[i].depth}
Under(t, i) == IF Outside(t, i) = {} THEN i..Len(t) ELSE i..(Min(Outside(t, i)) - 1)
Tagged(t, i, name) == {j \in Under(t, i) : LocalTag(t[j]) = name}
RawText(el) == OrEmpty(el.text)

\* the items with a rateName descendant whose trimmed text is rate_name
TargetItems(t, rate_name) ==
  {i \in 1..Len(t) :
     /\ LocalTag(t[i]) = <<"item">>
     /\ \E j \in Tagged(t, i, <<"rateName">>) : Strip(RawText(t[j])) = rate_name}

\* the same on the text as it stands in the document
RawTargetItems(t, rate_name) ==
  {i \in 1..Len(t) :
     /\ LocalTag(t[i]) = <<"item">>
     /\ \E j \in Tagged(t, i, <<"rateName">>) : RawText(t[j]) = rate_name}

NotFoundMsg == "Could not find <item> containing rateName=SARH"
DateNotFoundMsg == "dc:date not found in matched item"
ValueNotFoundMsg == "cb:observation/cb:value not found in matched item"

\* the stages of this run that have run
LocateActed == root # <<>> /\ pc # "Locate"
ExtractDateActed == LocateActed /\ item # 0 /\ pc # "ExtractDate"
ExtractValueActed == date_iso.ret = "value" /\ pc # "ExtractValue"
Ended == exit_code # <<>>

\* C3 as stated: the item located is the first item with a rateName
\* descendant whose text equals the target, None when there is none.
C3_FirstItemByRawText ==
  LocateActed =>
    LET M == RawTargetItems(root, TARGET_RATE_NAME)
    IN IF M = {}
         THEN item = 0 /\ exit_code = <<1>> /\ err = NotFoundMsg
         ELSE item = Min(M)

\* C3, amended: find_item_by_rate_name returns the first item, in document
\* order, with a rateName descendant whose text, trimmed of surrounding
\* whitespace, equals the target (case-sensitive); when none qualifies the
\* result is None and main() ends with the "not found" error naming SARH.
C3_FirstItemInDocumentOrder ==
  LocateActed =>
    LET M == TargetItems(root, TARGET_RATE_NAME)
    IN IF M = {}
         THEN item = 0 /\ exit_code = <<1>> /\ err = NotFoundMsg
         ELSE item = Min(M)

\* several items qualify, one nested in another, and the first is returned
C3_Witness ==
  /\ LocateActed
  /\ Cardinality(TargetItems(root, TARGET_RATE_NAME)) >= 3
  /\ item = Min(TargetItems(root, TARGET_RATE_NAME))
  /\ pc = "ExtractDate"

\* the first date descendant of the matched item
DateEls(t, i) == Tagged(t, i, <<"date">>)
TextDateEls(t, i) == {j \in DateEls(t, i) : Strip(RawText(t[j])) # <<>>}

\* C7 as stated: date extraction returns the trimmed text of the first date
\* descendant and fails when there is none or when that first one is empty,
\* also when a later date descendant has text.
C7_FirstDateOnly ==
  ExtractDateActed =>
    IF DateEls(root, item) = {} \/ Strip(RawText(root[Min(DateEls(root, item))])) = <<>>
      THEN ~dc_date.some /\ exit_code = <<1>> /\ err = DateNotFoundMsg
      ELSE dc_date = Some(Strip(RawText(root[Min(DateEls(root, item))])))

\* C7, amended: date extraction returns the trimmed text of the first date
\* descendant of the matched item whose trimmed text is not empty (empty
\* date elements are passed over); it fails only when no date descendant
\* has text.
C7_FirstDateWithText ==
  ExtractDateActed =>
    LET D == TextDateEls(root, item)
    IN IF D = {}
         THEN ~dc_date.some /\ exit_code = <<1>> /\ err = DateNotFoundMsg
         ELSE dc_date = Some(Strip(RawText(root[Min(D)])))

\* the first date of the item is empty, a later one is extracted
C7_Witness ==
  /\ ExtractDateActed
  /\ dc_date.some
  /\ DateEls(root, item) # {}
  /\ Strip(RawText(root[Min(DateEls(root, item))])) = <<>>

\* the observations of an item, and the value elements of an observation
ObsEl(t, i) == Tagged(t, i, <<"observation">>)
ValueEls(t, o) == Tagged(t, o, <<"value">>)

\* what the first observation of the item gives: the trimmed text of its
\* first value descendant, None when there is no observation, no value in
\* it, or no text in that value
FirstObservationValue(t, i) ==
  IF ObsEl(t, i) = {} THEN None
  ELSE IF ValueEls(t, Min(ObsEl(t, i))) = {} THEN None
  ELSE IF Strip(RawText(t[Min(ValueEls(t, Min(ObsEl(t, i))))])) = <<>> THEN None
  ELSE Some(Strip(RawText(t[Min(ValueEls(t, Min(ObsEl(t, i))))])))

\* C8: value extraction is confined to the first observation of the matched
\* item: it returns the trimmed text of that observation's first value,
\* fails when there is no observation, no value in the first observation or
\* no text in that value, and never returns the value of a later
\* observation.
C8_ValueOfFirstObservation ==
  ExtractValueActed =>
    /\ value_txt = FirstObservationValue(root, item)
    /\ ~value_txt.some => exit_code = <<1>> /\ err = ValueNotFoundMsg

\* the observations of the item whose rateName is the target
TargetObs(t, i, rate_name) ==
  {o \in ObsEl(t, i) :
     \E j \in Tagged(t, o, <<"rateName">>) : Strip(RawText(t[j])) = rate_name}

\* every observation of the item holds a rate name and a value with text
WholeObs(t, i) ==
  \A o \in ObsEl(t, i) :
    /\ Tagged(t, o, <<"rateName">>) # {}
    /\ \E v \in ValueEls(t, o) : Strip(RawText(t[v])) # <<>>

\* C9: when the matched item holds several observations of different rates
\* (each with its rate name and its value), the value of the written
\* record is the value of the observation whose rateName is the target,
\* never that of a sibling observation of another rate, whatever their
\* order.
C9_ValueOfTargetObservation ==
  (exit_code = <<0>> /\ Cardinality(ObsEl(root, item)) >= 2 /\ WholeObs(root, item)) =>
    \E o \in TargetObs(root, item, TARGET_RATE_NAME) :
      \E v \in ValueEls(root, o) :
        /\ value_of(Strip(RawText(root[v]))).ret = "value"
        /\ file.value = value_of(Strip(RawText(root[v]))).val

\* the first matching item has a date with text, and the first of its
\* observations that holds a value holds one with text
DateExtractable(t, i) == TextDateEls(t, i) # {}
ValuedObs(t, i) == {o \in ObsEl(t, i) : ValueEls(t, o) # {}}
ValueExtractable(t, i) ==
  /\ ValuedObs(t, i) # {}
  /\ Strip(RawText(t[Min(ValueEls(t, Min(ValuedObs(t, i))))])) # <<>>

\* C1 as stated: the record is written only if exactly one element of the
\* feed matches the target and a date and a value are extractable from it;
\* otherwise the run fails with exit code 1.  (Matching is taken as the
\* code takes it, on the trimmed text.)
C1_ExactlyOneMatch ==
  LET M == TargetItems(feed, TARGET_RATE_NAME)
      ok == Cardinality(M) = 1 /\ DateExtractable(feed, Min(M)) /\ ValueExtractable(feed, Min(M))
  IN /\ exit_code = <<0>> => ok
     /\ (Ended /\ ~ok) => exit_code = <<1>>

Recordable(t) ==
  /\ TargetItems(t, TARGET_RATE_NAME) # {}
  /\ DateExtractable(t, Min(TargetItems(t, TARGET_RATE_NAME)))
  /\ ValueExtractable(t, Min(TargetItems(t, TARGET_RATE_NAME)))

\* C1, amended: the record is written only if at least one element of the
\* feed matches the target (an item with a rateName descendant whose trimmed
\* text is "SARH") and a date and a value are extractable from the first
\* match; in every other case (no match, date or value not extractable) the
\* file is not touched and the run ends with exit code 1.
\* (stated by contraposition: a run that ends otherwise than with exit
\* code 1, and a step that changes the file, need a recordable feed)
C1_WrittenOnlyIfExtractable ==
  /\ [](exit_code = <<0>> => Recordable(feed) /\ file.kind = "json")
  /\ []((Ended /\ exit_code # <<1>>) => Recordable(feed))
  /\ [][file' # file => Recordable(feed)]_vars

\* several elements match and the record of the first is written
C1_Witness ==
  /\ exit_code = <<0>>
  /\ Cardinality(TargetItems(feed, TARGET_RATE_NAME)) >= 2
  /\ file.kind = "json"
  /\ file.generated_at_utc = clock

C6_RerunSameRecord ==
  [][(pc = "Write" /\ exit_code' = <<0>> /\ stdout # <<>> /\ file.kind = "json") =>
       /\ file'.kind = "json"
       /\ file'.source = file.source
       /\ file'.rateName = file.rateName
       /\ file'.date = file.date
       /\ file'.value = file.value
       /\ file'.generated_at_utc = clock
       /\ file' = [file EXCEPT !.generated_at_utc = clock]]_vars

\* two runs have written the file, the second over the record of the first
C6_Witness ==
  /\ Len(stdout) = 2
  /\ runs = 2
  /\ exit_code = <<0>>
  /\ file.kind = "json"
  /\ file.generated_at_utc = clock

\* C10 as stated: the stages run in the order Fetch, Locate, ExtractDate,
\* ExtractValue, Normalize, Write, so nothing is normalised before both
\* extractions have succeeded, and a matched item with a malformed date and
\* no value fails at ExtractValue.
C10_NormalizeAfterBothExtractions ==
  /\ date_iso.ret = "value" => value_txt.some
  /\ (Ended /\ item # 0 /\ dc_date.some /\ ~find_observation_value(root, item).some)
       => err = ValueNotFoundMsg

StageAfter(stage) ==
  CASE stage = "Fetch" -> "Locate"
    [] stage = "Locate" -> "ExtractDate"
    [] stage = "ExtractDate" -> "NormalizeDate"
    [] stage = "NormalizeDate" -> "ExtractValue"
    [] stage = "ExtractValue" -> "NormalizeValue"
    [] stage = "NormalizeValue" -> "Write"
    [] stage = "Write" -> "Done"
    [] stage = "Done" -> "Fetch"

\* C10, amended: a run goes through the stages in the order Fetch, Locate,
\* ExtractDate, NormalizeDate, ExtractValue, NormalizeValue, Write, each at
\* most once, with no loop or retry; the first stage that fails ends the
\* run with exit code 1 and no later stage runs; the date is normalised
\* before the value is extracted, so a value is looked for only once the
\* date is normalised; a run ends with exit code 0 or with exit code 1.
C10_StagesInCodeOrder ==
  /\ [][\/ pc' = StageAfter(pc) /\ exit_code' = (IF pc = "Write" THEN <<0>> ELSE <<>>)
        \/ pc # "Done" /\ pc' = "Done" /\ exit_code' = <<1>> /\ err' # ""]_vars
  /\ [](pc = "Done" <=> exit_code \in {<<0>>, <<1>>})
  /\ [](pc # "Done" => exit_code = <<>>)
  /\ []((value_txt.some \/ err = ValueNotFoundMsg) => date_iso.ret = "value")
  /\ [](date_iso.ret = "value" => dc_date.some /\ item # 0)

\* a matched item with a malformed date and no value: the run has failed in
\* the normalisation of the date
C10_Witness ==
  /\ exit_code = <<1>>
  /\ item # 0
  /\ dc_date.some
  /\ ~find_observation_value(root, item).some
  /\ err = "ValueError: Invalid isoformat string"

====
